---- MODULE Spec2Model ----
(***************************************************************************)
(* Model of volvooncall.py: the Connection registry (self._state), its     *)
(* refresh protocol (Connection.update / update_vehicle) and the remote    *)
(* command protocol (Vehicle.call and the command methods).                *)
(*                                                                         *)
(* One step of the model is one request (one await of Connection.get or    *)
(* Connection.post) together with the code that runs after it up to the    *)
(* next request or the end of the operation.                               *)
(***************************************************************************)
EXTENDS Naturals, Sequences, FiniteSets

VARIABLES
    state,       \* Connection._state: insertion-ordered dict url -> attrs
    pc,          \* position of the running operation ("idle" between calls)
    op,          \* the public operation last invoked
    cur,         \* url of the vehicle being worked on (Vehicle._url / url)
    path,        \* command sub-path handed to Vehicle.call
    todo,        \* relations of user['accountVehicleRelations'] still to visit
    idx,         \* position of the generator Connection.vehicles in the dict
    journal,     \* the journal argument of the running refresh
    reset,       \* the reset argument of the running Connection.update
    result,      \* how the operation ended: "True", "None", "raised"
    exc,         \* class of the exception that left the operation, or "none"
    callResult,  \* value Vehicle.call returned: "True", "None", "raised"
    submitRes,   \* <<response of the POST>> once received
    pollRes,     \* <<response of the GET of the service url>> once received
    reqs,        \* requests issued by the running/last operation, in order
    failedAt,    \* kind of the request on which the transport failed
    preKeys,     \* identifiers in the registry when the operation was invoked
    discovered,  \* identifiers returned by the relation fetches of this call
    expected,    \* registry as a plain mapping, built from the fetch effects
    remote,      \* << >>: the server answers anything; <<R>>: it holds R for good
    pre,         \* registry when the operation was invoked (fixed server only)
    prev,        \* whether the operation before was a plain update() that
                 \* returned True, and its journal flag (fixed server only)
    session,     \* self._session: "open" or "closed"
    closes,      \* number of calls of self._session.close()
    mainpc,      \* position of main(), "none" where main() is not running
    arg,         \* the accessor under study and its input, if any
    ret,         \* what the accessor returned, once it was called
    dicts,       \* two calls at once: the dict objects self._state has been
                 \* bound to, each a sequence of [url, snap]
    snaps,       \* two calls at once: the snapshot dict objects
    self_state,  \* two calls at once: index in dicts of self._state
    tasks        \* two calls at once: the locals of each call

vars == <<state, pc, op, cur, path, todo, idx, journal, reset, result, exc,
          callResult, submitRes, pollRes, reqs, failedAt, preKeys,
          discovered, expected, remote, pre, prev, session, closes,
          mainpc, arg, ret, dicts, snaps, self_state, tasks>>

\* the variables of the study of two calls at once
raceVars == <<dicts, snaps, self_state, tasks>>

----------------------------------------------------------------------------
(* Bounds of the model *)

MaxRelations == 2

URLs == {"u1", "u2"}

----------------------------------------------------------------------------
(* Python values.  JSON values are strings here; nested objects are opaque  *)
(* non-empty strings.                                                       *)

NoneVal == "None"

Truthy(v) == v \notin {"None", "false", ""}

\* dict.get(key) on a dict modelled as a function
DictGet(d, k) == IF k \in DOMAIN d THEN d[k] ELSE NoneVal

\* an assignment in the place of dict.update: the other keys are lost
DictUpdateReplacing(d, e) == e

\* dict.update(other): overwrite by key, keep the other keys
DictUpdate(d, e) ==
    [k \in (DOMAIN d) \cup (DOMAIN e) |-> IF k \in DOMAIN e THEN e[k] ELSE d[k]]

\* x and y
PyAnd(x, y) == IF Truthy(x) THEN y ELSE x

----------------------------------------------------------------------------
(* The registry self._state : an insertion-ordered dict of url -> attrs     *)

Keys(s) == {s[i].url : i \in DOMAIN s}

HasKey(s, u) == u \in Keys(s)

Lookup(s, u) == s[CHOOSE i \in DOMAIN s : s[i].url = u].attrs

\* self._state.update({url: state})
StateInsert(s, u, a) ==
    IF HasKey(s, u)
    THEN [i \in DOMAIN s |-> IF s[i].url = u THEN [url |-> u, attrs |-> a] ELSE s[i]]
    ELSE Append(s, [url |-> u, attrs |-> a])

\* the response is merged into every snapshot
StateMergeAll(s, u, e) ==
    [i \in DOMAIN s |-> [url |-> s[i].url, attrs |-> DictUpdate(s[i].attrs, e)]]

\* self._state[url].update(response)
StateMerge(s, u, e) ==
    [i \in DOMAIN s |->
        IF s[i].url = u THEN [url |-> u, attrs |-> DictUpdate(s[i].attrs, e)]
        ELSE s[i]]

\* the registry read as a plain mapping url -> attrs
AsMapping(s) == [u \in Keys(s) |-> Lookup(s, u)]

----------------------------------------------------------------------------
(* What the server may answer.                                              *)

AttrResponses ==
    { [vin |-> "v", lockSupported |-> "true", unlockSupported |-> "true",
       engineStartSupported |-> "true", remoteHeaterSupported |-> "true"],
      [vin |-> "v", lockSupported |-> "false", engineStartSupported |-> "true",
       remoteHeaterSupported |-> "false", preclimatizationSupported |-> "true"],
      [vin |-> "v"] }

StatusResponses ==
    { [carLocked |-> "true", ERS |-> "ers"],
      [carLocked |-> "false"] }

PositionResponses == { [position |-> "p"] }

TripsResponses == { [trips |-> "t"] }

Absent == "<absent>"

\* the answer to the POST of a command: 'status' and 'service' may be missing
SubmitResponses ==
    { [status |-> "Queued", service |-> "X"],
      [status |-> "Started", service |-> "X"],
      [status |-> "Failed", service |-> Absent],
      [status |-> "Queued", service |-> Absent],
      [status |-> Absent, service |-> "X"] }

\* the answer to the GET of the service url
PollResponses ==
    { [status |-> s, service |-> Absent] :
        s \in {"MessageDelivered", "Successful", "Started", "Queued", Absent} }

\* key in res
In(k, res) == res[k] # Absent

\* a server state: the vehicles the account's relations lead to, in order,
\* what each vehicle url answers for 'attributes', and what the vehicles
\* answer for 'status'
Remotes ==
    { [account |-> acc, attributes |-> at, status |-> st] :
        acc \in UNION { [1..n -> URLs] : n \in 0..MaxRelations },
        at \in { [u \in URLs |-> IF u = "u1" THEN a ELSE b] :
                    a \in AttrResponses, b \in AttrResponses },
        st \in { [u \in URLs |-> a] : a \in StatusResponses } }

\* what the server r answers: the number of relations of the account, the
\* vehicle of the relation met when k relations are still to visit, the
\* attributes and the status of vehicle u
AccountAnswers(r) ==
    IF Len(r) = 0 THEN 0..MaxRelations ELSE {Len(r[1].account)}

RelationAnswers(r, k) ==
    IF Len(r) = 0 THEN URLs ELSE {r[1].account[Len(r[1].account) - k + 1]}

AttrAnswers(r, u) ==
    IF Len(r) = 0 THEN AttrResponses ELSE {r[1].attributes[u]}

StatusAnswers(r, u) ==
    IF Len(r) = 0 THEN StatusResponses ELSE {r[1].status[u]}

----------------------------------------------------------------------------
(* Failures of the transport.  The session is an aiohttp.ClientSession with *)
(* raise_for_status=True; what _request lets through is an aiohttp, asyncio *)
(* or json exception.  Bases gives the classes each one is an instance of.  *)

TransportErrors ==
    { "ClientConnectorError",   \* network error
      "ClientResponseError",    \* non-2xx status
      "asyncio.TimeoutError",   \* total timeout, interpreters before 3.11
      "TimeoutError",           \* total timeout, interpreters from 3.11 on
      "JSONDecodeError" }       \* malformed body

Bases(e) ==
    CASE e = "ClientConnectorError" ->
            {"ClientConnectorError", "ClientOSError", "ClientConnectionError",
             "ClientError", "OSError", "Exception"}
      [] e = "ClientResponseError" -> {"ClientResponseError", "ClientError", "Exception"}
      [] e = "asyncio.TimeoutError" -> {"asyncio.TimeoutError", "Exception"}
      [] e = "TimeoutError" -> {"TimeoutError", "OSError", "Exception"}
      [] e = "JSONDecodeError" -> {"JSONDecodeError", "ValueError", "Exception"}
      [] OTHER -> {e, "Exception"}

\* except (IOError, OSError) in Connection.update
UpdateCatches(e) == "OSError" \in Bases(e)

\* except RequestException in Vehicle.call
CallCatches(e) == "RequestException" \in Bases(e)

----------------------------------------------------------------------------
(* Vehicle: capability accessors and the sub-path each command method posts *)

Methods == {"lock", "unlock", "start_engine", "stop_engine",
            "start_heater", "stop_heater"}

\* the flag is taken as set as soon as the key is there
is_lock_supported_if_present(a) ==
    IF "lockSupported" \in DOMAIN a THEN "true" ELSE NoneVal

is_lock_supported(a) == DictGet(a, "lockSupported")

is_unlock_supported(a) == DictGet(a, "unlockSupported")

is_remote_heater_supported(a) == DictGet(a, "remoteHeaterSupported")

is_preclimatization_supported(a) == DictGet(a, "preclimatizationSupported")

is_engine_start_supported(a) ==
    PyAnd(DictGet(a, "engineStartSupported"), DictGet(a, "ERS"))

NoPath == ""

\* the sub-path a command method posts, NoPath when it takes its else branch
CommandPath(m, a) ==
    CASE m = "lock" ->
            IF Truthy(is_lock_supported(a)) THEN "lock" ELSE NoPath
      [] m = "unlock" ->
            IF Truthy(is_unlock_supported(a)) THEN "unlock" ELSE NoPath
      [] m = "start_engine" ->
            IF Truthy(is_engine_start_supported(a)) THEN "engine/start" ELSE NoPath
      [] m = "stop_engine" ->
            IF Truthy(is_engine_start_supported(a)) THEN "engine/stop" ELSE NoPath
      [] m = "start_heater" ->
            IF Truthy(is_remote_heater_supported(a)) THEN "heater/start"
            ELSE IF Truthy(is_preclimatization_supported(a))
                 THEN "preclimatization/start" ELSE NoPath
      [] m = "stop_heater" ->
            IF Truthy(is_remote_heater_supported(a)) THEN "heater/stop"
            ELSE IF Truthy(is_preclimatization_supported(a))
                 THEN "preclimatization/stop" ELSE NoPath

\* statuses Vehicle.call accepts after the POST and after the GET
SubmitAcceptedQueuedOnly == {"Queued"}

SubmitAcceptedAny == {"Queued", "Started", "Failed"}

SubmitAccepted == {"Queued", "Started"}

PollAcceptedWithQueued == {"MessageDelivered", "Successful", "Started", "Queued"}

PollAccepted == {"MessageDelivered", "Successful", "Started"}

\* 'service' and 'status' not in res
StatusMissing(res) == IF Truthy("service") THEN ~In("status", res) ELSE FALSE

----------------------------------------------------------------------------
(* Initial state: a Connection just constructed (self._state = {})          *)

NoUrl == "-"

\* no accessor is under study; the accessor has not been called
NoArg == [f |-> "none"]

NoRet == [kind |-> "none"]

\* nothing is known of the operation before
NoPrev == [update |-> FALSE, journal |-> FALSE]

Init ==
    /\ state = << >>
    /\ pc = "idle"
    /\ op = "none"
    /\ cur = NoUrl
    /\ path = NoPath
    /\ todo = 0
    /\ idx = 0
    /\ journal = FALSE
    /\ reset = FALSE
    /\ result = "None"
    /\ exc = "none"
    /\ callResult = "-"
    /\ submitRes = << >>
    /\ pollRes = << >>
    /\ reqs = << >>
    /\ failedAt = "none"
    /\ preKeys = {}
    /\ discovered = {}
    /\ expected = << >>
    /\ remote = << >>
    /\ pre = << >>
    /\ prev = NoPrev
    /\ session = "open"
    /\ closes = 0
    /\ mainpc = "none"
    /\ arg = NoArg
    /\ ret = NoRet
    /\ dicts = << >>
    /\ snaps = << >>
    /\ self_state = 0
    /\ tasks = << >>

----------------------------------------------------------------------------
(* How an operation ends                                                    *)

\* the operation returns res, or an exception e leaves it
Finish(res, e) ==
    /\ pc' = "idle"
    /\ result' = res
    /\ exc' = e
    /\ todo' = 0
    /\ idx' = 0

\* what every invocation resets
Invoke(o, j, r) ==
    /\ pc = "idle"
    /\ op' = o
    /\ journal' = j
    /\ reset' = r
    /\ callResult' = "-"
    /\ submitRes' = << >>
    /\ pollRes' = << >>
    /\ reqs' = << >>
    /\ failedAt' = "none"
    /\ preKeys' = Keys(state)
    /\ discovered' = {}
    /\ expected' = AsMapping(state)
    /\ state' = state
    /\ remote' = remote
    /\ pre' = IF Len(remote) = 0 THEN << >> ELSE state
    /\ prev' = IF Len(remote) # 0 /\ op = "update" /\ result = "True" /\ ~reset
               THEN [update |-> TRUE, journal |-> journal]
               ELSE NoPrev
    /\ UNCHANGED <<session, closes, mainpc, arg, ret, raceVars>>

\* the operation goes on to its next request at position p
Goto(p) ==
    /\ pc' = p
    /\ result' = "pending"
    /\ exc' = "none"

\* for vehicle in self.vehicles: await vehicle.update(...), from the top of
\* the dict s; an empty dict ends Connection.update with True
EnterLoop(s) ==
    IF Len(s) = 0
    THEN /\ Finish("True", "none")
         /\ cur' = NoUrl
    ELSE /\ Goto("status")
         /\ idx' = 1
         /\ cur' = s[1].url
         /\ todo' = 0

\* Connection.update_vehicle begins for url u: self._state[url] is looked up
\* before the first request is made
EnterVehicle(s, u) ==
    IF HasKey(s, u)
    THEN /\ Goto("status")
         /\ UNCHANGED <<todo, idx>>
    ELSE Finish("raised", "KeyError")

\* update_vehicle is over for the vehicle at position idx: the generator of
\* Connection.update moves on, Vehicle.update and the command methods return
LeaveVehicle(s) ==
    IF op = "update"
    THEN /\ UNCHANGED <<submitRes, pollRes>>
         /\ IF idx < Len(s)
            THEN /\ Goto("status")
                 /\ idx' = idx + 1
                 /\ cur' = s[idx + 1].url
                 /\ todo' = 0
            ELSE /\ Finish("True", "none")
                 /\ cur' = NoUrl
    ELSE /\ Finish("None", "none")
         /\ cur' = cur
         /\ UNCHANGED <<submitRes, pollRes>>

\* as FetchFails, with a handler that throws the registry away
FetchFailsClearing(k, e) ==
    /\ failedAt' = k
    /\ IF op = "update" /\ UpdateCatches(e)
       THEN Finish("None", "none")
       ELSE Finish("raised", e)
    /\ state' = << >>
    /\ UNCHANGED <<expected, cur, discovered, submitRes, pollRes>>

\* the transport raised e on a request of kind k made by update/update_vehicle
FetchFails(k, e) ==
    /\ failedAt' = k
    /\ IF op = "update" /\ UpdateCatches(e)
       THEN Finish("None", "none")
       ELSE Finish("raised", e)
    /\ UNCHANGED <<state, expected, cur, discovered, submitRes, pollRes>>

Issue(k, u) == reqs' = Append(reqs, <<k, u>>)

----------------------------------------------------------------------------
(* Connection.update                                                        *)

\* update(journal=j, reset=r) rediscovering whatever the registry holds
StartUpdateRediscovering(j, r) ==
    /\ Invoke("update", j, r)
    /\ path' = NoPath
    /\ Goto("account")
    /\ cur' = NoUrl
    /\ todo' = 0
    /\ idx' = 0

\* update(journal=j, reset=r) is called
StartUpdate(j, r) ==
    /\ Invoke("update", j, r)
    /\ path' = NoPath
    /\ IF Len(state) = 0 \/ r
       THEN /\ Goto("account")
            /\ cur' = NoUrl
            /\ todo' = 0
            /\ idx' = 0
       ELSE EnterLoop(state)

\* the registry is kept where the code starts a new one
KeptRegistry == state

\* self._state = {}
FreshRegistry == << >>

\* self._state = {}; user = await self.get('customeraccounts')
GetAccountResettingFirst ==
    /\ pc = "account"
    /\ Issue("customeraccounts", NoUrl)
    /\ \/ \E e \in TransportErrors : FetchFailsClearing("customeraccounts", e)
       \/ \E n \in AccountAnswers(remote) :
            /\ state' = FreshRegistry
            /\ expected' = << >>
            /\ UNCHANGED <<failedAt, discovered, submitRes, pollRes>>
            /\ IF n = 0
               THEN EnterLoop(<< >>)
               ELSE /\ Goto("relation")
                    /\ todo' = n
                    /\ UNCHANGED <<cur, idx>>
    /\ UNCHANGED <<op, path, journal, reset, callResult, preKeys, remote, pre, prev,
                   session, closes, mainpc, arg, ret, raceVars>>

\* user = await self.get('customeraccounts'); self._state = {}
GetAccount ==
    /\ pc = "account"
    /\ Issue("customeraccounts", NoUrl)
    /\ \/ \E e \in TransportErrors : FetchFails("customeraccounts", e)
       \/ \E n \in AccountAnswers(remote) :
            /\ state' = FreshRegistry
            /\ expected' = << >>
            /\ UNCHANGED <<failedAt, discovered, submitRes, pollRes>>
            /\ IF n = 0
               THEN EnterLoop(<< >>)
               ELSE /\ Goto("relation")
                    /\ todo' = n
                    /\ UNCHANGED <<cur, idx>>
    /\ UNCHANGED <<op, path, journal, reset, callResult, preKeys, remote, pre, prev,
                   session, closes, mainpc, arg, ret, raceVars>>

\* rel = await self.get(vehicle); url = rel['vehicle'] + '/'
GetRelation ==
    /\ pc = "relation"
    /\ Issue("relation", NoUrl)
    /\ \/ \E e \in TransportErrors : FetchFails("relation", e)
       \/ \E u \in RelationAnswers(remote, todo) :
            /\ cur' = u
            /\ discovered' = discovered \cup {u}
            /\ Goto("attributes")
            /\ UNCHANGED <<state, expected, failedAt, todo, idx, submitRes, pollRes>>
    /\ UNCHANGED <<op, path, journal, reset, callResult, preKeys, remote, pre, prev,
                   session, closes, mainpc, arg, ret, raceVars>>

\* state = await self.get('attributes', url); self._state.update({url: state})
GetAttributes ==
    /\ pc = "attributes"
    /\ Issue("attributes", cur)
    /\ \/ \E e \in TransportErrors : FetchFails("attributes", e)
       \/ \E a \in AttrAnswers(remote, cur) :
            /\ state' = StateInsert(state, cur, a)
            /\ expected' = [u \in (DOMAIN expected) \cup {cur} |->
                                IF u = cur THEN a ELSE expected[u]]
            /\ UNCHANGED <<failedAt, discovered, submitRes, pollRes>>
            /\ IF todo > 1
               THEN /\ Goto("relation")
                    /\ todo' = todo - 1
                    /\ UNCHANGED <<cur, idx>>
               ELSE EnterLoop(state')
    /\ UNCHANGED <<op, path, journal, reset, callResult, preKeys, remote, pre, prev,
                   session, closes, mainpc, arg, ret, raceVars>>

----------------------------------------------------------------------------
(* Connection.update_vehicle, reached from Connection.update, from          *)
(* Vehicle.update and from the command methods                              *)

\* the effect on the plain mapping of merging response r into vehicle u
ExpectMerge(m, u, r) ==
    [v \in DOMAIN m |->
        IF v = u
        THEN [k \in (DOMAIN m[v]) \cup (DOMAIN r) |->
                IF k \in DOMAIN r THEN r[k] ELSE m[v][k]]
        ELSE m[v]]

\* self._state[url].update(await self.get('status', url))
GetStatus ==
    /\ pc = "status"
    /\ Issue("status", cur)
    /\ \/ \E e \in TransportErrors : FetchFails("status", e)
       \/ \E r \in StatusAnswers(remote, cur) :
            /\ state' = StateMerge(state, cur, r)
            /\ expected' = ExpectMerge(expected, cur, r)
            /\ Goto("position")
            /\ UNCHANGED <<failedAt, discovered, cur, todo, idx, submitRes, pollRes>>
    /\ UNCHANGED <<op, path, journal, reset, callResult, preKeys, remote, pre, prev,
                   session, closes, mainpc, arg, ret, raceVars>>

\* the position is merged and the vehicle is done, journal or not
GetPositionWithoutJournal ==
    /\ pc = "position"
    /\ Issue("position", cur)
    /\ \/ \E e \in TransportErrors : FetchFails("position", e)
       \/ \E r \in PositionResponses :
            /\ state' = StateMerge(state, cur, r)
            /\ expected' = ExpectMerge(expected, cur, r)
            /\ UNCHANGED <<failedAt, discovered>>
            /\ LeaveVehicle(state')
    /\ UNCHANGED <<op, path, journal, reset, callResult, preKeys, remote, pre, prev,
                   session, closes, mainpc, arg, ret, raceVars>>

\* self._state[url].update(await self.get('position', url)); if journal: ...
GetPosition ==
    /\ pc = "position"
    /\ Issue("position", cur)
    /\ \/ \E e \in TransportErrors : FetchFails("position", e)
       \/ \E r \in PositionResponses :
            /\ state' = StateMerge(state, cur, r)
            /\ expected' = ExpectMerge(expected, cur, r)
            /\ UNCHANGED <<failedAt, discovered>>
            /\ IF journal
               THEN /\ Goto("trips")
                    /\ UNCHANGED <<cur, todo, idx, submitRes, pollRes>>
               ELSE LeaveVehicle(state')
    /\ UNCHANGED <<op, path, journal, reset, callResult, preKeys, remote, pre, prev,
                   session, closes, mainpc, arg, ret, raceVars>>

\* self._state[url].update(await self.get('trips', url))
GetTrips ==
    /\ pc = "trips"
    /\ Issue("trips", cur)
    /\ \/ \E e \in TransportErrors : FetchFails("trips", e)
       \/ \E r \in TripsResponses :
            /\ state' = StateMerge(state, cur, r)
            /\ expected' = ExpectMerge(expected, cur, r)
            /\ UNCHANGED <<failedAt, discovered>>
            /\ LeaveVehicle(state')
    /\ UNCHANGED <<op, path, journal, reset, callResult, preKeys, remote, pre, prev,
                   session, closes, mainpc, arg, ret, raceVars>>

\* Vehicle.update(journal=j) on a view of url u
StartVehicleUpdate(u, j) ==
    /\ Invoke("vehicle_update", j, FALSE)
    /\ path' = NoPath
    /\ cur' = u
    /\ EnterVehicle(state, u)

----------------------------------------------------------------------------
(* The command methods and Vehicle.call                                     *)

\* lock / unlock / start_engine / stop_engine / start_heater / stop_heater
\* on a view of url u
StartCommand(m, u) ==
    /\ Invoke(m, FALSE, FALSE)
    /\ cur' = u
    /\ IF ~HasKey(state, u)
       THEN \* self.attrs is None: None.get(...)
            /\ Finish("raised", "AttributeError")
            /\ path' = NoPath
       ELSE /\ path' = CommandPath(m, Lookup(state, u))
            /\ IF path' = NoPath
               THEN Finish("None", "none")
               ELSE /\ Goto("post")
                    /\ UNCHANGED <<todo, idx>>

\* an exception e raised inside the try block of Vehicle.call by the request
\* of kind k: caught when it is a RequestException, and then call returns None
\* and the command method goes on to self.update()
CallFails(k, e) ==
    /\ failedAt' = k
    /\ IF CallCatches(e)
       THEN /\ callResult' = "None"
            /\ EnterVehicle(state, cur)
       ELSE /\ callResult' = "raised"
            /\ Finish("raised", e)

\* the command method refreshes only when Vehicle.call returned True
CallReturnsRefreshOnSuccess(v) ==
    /\ callResult' = v
    /\ IF v = "True" THEN EnterVehicle(state, cur) ELSE Finish("None", "none")

\* Vehicle.call returned v: the command method goes on to self.update()
CallReturns(v) ==
    /\ callResult' = v
    /\ EnterVehicle(state, cur)

\* an expression of Vehicle.call raised e, which no except clause matches
CallRaises(e) ==
    /\ callResult' = "raised"
    /\ Finish("raised", e)

\* res = await self.post(method, **data) and the checks on res
Post ==
    /\ pc = "post"
    /\ Issue("POST", cur)
    /\ \/ \E e \in TransportErrors :
            /\ CallFails("POST", e)
            /\ UNCHANGED submitRes
       \/ \E res \in SubmitResponses :
            /\ submitRes' = <<res>>
            /\ failedAt' = failedAt
            /\ IF StatusMissing(res)
               THEN CallRaises("KeyError")       \* res['status'] in the warning
               ELSE IF res.status \notin SubmitAccepted
               THEN CallReturns("None")
               ELSE IF ~In("service", res)
               THEN CallRaises("KeyError")       \* service_url = res['service']
               ELSE /\ Goto("poll")
                    /\ UNCHANGED <<callResult, todo, idx>>
    /\ UNCHANGED <<state, expected, op, cur, path, journal, reset, pollRes,
                   preKeys, discovered, remote, pre, prev, session, closes,
                   mainpc, arg, ret, raceVars>>

\* res = await self.get(service_url) and the checks on res
Poll ==
    /\ pc = "poll"
    /\ Issue("service", cur)
    /\ \/ \E e \in TransportErrors :
            /\ CallFails("service", e)
            /\ UNCHANGED pollRes
       \/ \E res \in PollResponses :
            /\ pollRes' = <<res>>
            /\ failedAt' = failedAt
            /\ IF StatusMissing(res)
               THEN CallRaises("KeyError")       \* res['status'] in the warning
               ELSE IF res.status \notin PollAccepted
               THEN CallReturns("None")
               ELSE CallReturns("True")
    /\ UNCHANGED <<state, expected, op, cur, path, journal, reset, submitRes,
                   preKeys, discovered, remote, pre, prev, session, closes,
                   mainpc, arg, ret, raceVars>>

----------------------------------------------------------------------------

\* every public operation, one after the other, on a fresh Connection
Next ==
    \/ \E j \in BOOLEAN, r \in BOOLEAN : StartUpdate(j, r)
    \/ GetAccount
    \/ GetRelation
    \/ GetAttributes
    \/ GetStatus
    \/ GetPosition
    \/ GetTrips
    \/ \E u \in URLs, j \in BOOLEAN : StartVehicleUpdate(u, j)
    \/ \E m \in Methods, u \in URLs : StartCommand(m, u)
    \/ Post
    \/ Poll

Spec == Init /\ [][Next]_vars

\* the refresh operations alone: Connection.update and Vehicle.update
NextRefresh ==
    \/ \E j \in BOOLEAN, r \in BOOLEAN : StartUpdate(j, r)
    \/ GetAccount
    \/ GetRelation
    \/ GetAttributes
    \/ GetStatus
    \/ GetPosition
    \/ GetTrips
    \/ \E u \in URLs, j \in BOOLEAN : StartVehicleUpdate(u, j)

SpecRefresh == Init /\ [][NextRefresh]_vars

\* a Connection just constructed, against a server whose state stays as it is
InitStable ==
    /\ state = << >>
    /\ pc = "idle"
    /\ op = "none"
    /\ cur = NoUrl
    /\ path = NoPath
    /\ todo = 0
    /\ idx = 0
    /\ journal = FALSE
    /\ reset = FALSE
    /\ result = "None"
    /\ exc = "none"
    /\ callResult = "-"
    /\ submitRes = << >>
    /\ pollRes = << >>
    /\ reqs = << >>
    /\ failedAt = "none"
    /\ preKeys = {}
    /\ discovered = {}
    /\ expected = << >>
    /\ remote \in { <<r>> : r \in Remotes }
    /\ pre = << >>
    /\ prev = NoPrev
    /\ session = "open"
    /\ closes = 0
    /\ mainpc = "none"
    /\ arg = NoArg
    /\ ret = NoRet
    /\ dicts = << >>
    /\ snaps = << >>
    /\ self_state = 0
    /\ tasks = << >>

\* the refresh operations against a server whose state stays as it is
SpecStable == InitStable /\ [][NextRefresh]_vars

\* snapshots a vehicle has after a successful Connection.update(): its
\* attributes with a status and a position response merged into them
Snapshots ==
    { DictUpdate(DictUpdate(a, st), p) :
        a \in AttrResponses, st \in StatusResponses, p \in PositionResponses }

\* registries a successful Connection.update() leaves behind
Registries ==
    { << >> } \cup
    { << [url |-> u, attrs |-> a] >> : u \in URLs, a \in Snapshots } \cup
    { r \in { << [url |-> u, attrs |-> a], [url |-> v, attrs |-> b] >> :
                u \in URLs, v \in URLs, a \in Snapshots, b \in Snapshots } :
        r[1].url # r[2].url }

\* a Connection whose registry earlier refreshes have filled
InitCommands ==
    /\ state \in Registries
    /\ pc = "idle"
    /\ op = "none"
    /\ cur = NoUrl
    /\ path = NoPath
    /\ todo = 0
    /\ idx = 0
    /\ journal = FALSE
    /\ reset = FALSE
    /\ result = "None"
    /\ exc = "none"
    /\ callResult = "-"
    /\ submitRes = << >>
    /\ pollRes = << >>
    /\ reqs = << >>
    /\ failedAt = "none"
    /\ preKeys = {}
    /\ discovered = {}
    /\ expected = << >>
    /\ remote = << >>
    /\ pre = << >>
    /\ prev = NoPrev
    /\ session = "open"
    /\ closes = 0
    /\ mainpc = "none"
    /\ arg = NoArg
    /\ ret = NoRet
    /\ dicts = << >>
    /\ snaps = << >>
    /\ self_state = 0
    /\ tasks = << >>

\* the command methods alone, with the refresh that follows Vehicle.call
NextCommands ==
    \/ \E m \in Methods, u \in URLs : StartCommand(m, u)
    \/ Post
    \/ Poll
    \/ GetStatus
    \/ GetPosition

SpecCommands == InitCommands /\ [][NextCommands]_vars

\* a Connection whose registry holds at least one vehicle
InitPopulated == InitCommands /\ state # << >>

\* every operation but the rediscovery: update(reset=False), Vehicle.update
\* and the command methods, one after the other
NextPopulated ==
    \/ \E j \in BOOLEAN : StartUpdate(j, FALSE)
    \/ GetStatus
    \/ GetPosition
    \/ GetTrips
    \/ \E u \in URLs, j \in BOOLEAN : StartVehicleUpdate(u, j)
    \/ \E m \in Methods, u \in URLs : StartCommand(m, u)
    \/ Post
    \/ Poll

SpecPopulated == InitPopulated /\ [][NextPopulated]_vars

----------------------------------------------------------------------------
(* main(): async with Connection(...) as connection                         *)

\* the variables of the Connection and of the operation in hand
connVars == <<state, pc, op, cur, path, todo, idx, journal, reset, result, exc,
              callResult, submitRes, pollRes, reqs, failedAt, preKeys,
              discovered, expected, remote, pre, prev>>

\* '%s (%s/%d) %s' % (..., self.model_year, ...) raises TypeError on a
\* snapshot without a modelYear
StrRaises(a) == DictGet(a, "modelYear") = NoneVal

\* main() has constructed the Connection and entered the block
InitMain ==
    /\ state = << >>
    /\ pc = "idle"
    /\ op = "none"
    /\ cur = NoUrl
    /\ path = NoPath
    /\ todo = 0
    /\ idx = 0
    /\ journal = FALSE
    /\ reset = FALSE
    /\ result = "None"
    /\ exc = "none"
    /\ callResult = "-"
    /\ submitRes = << >>
    /\ pollRes = << >>
    /\ reqs = << >>
    /\ failedAt = "none"
    /\ preKeys = {}
    /\ discovered = {}
    /\ expected = << >>
    /\ remote = << >>
    /\ pre = << >>
    /\ prev = NoPrev
    /\ session = "open"
    /\ closes = 0
    /\ mainpc = "body"
    /\ arg = NoArg
    /\ ret = NoRet
    /\ dicts = << >>
    /\ snaps = << >>
    /\ self_state = 0
    /\ tasks = << >>

\* await connection.update()
MainUpdate ==
    /\ mainpc = "body"
    /\ op = "none"
    /\ StartUpdate(FALSE, FALSE)

\* if await connection.update(): the call is over, with a value or an error
MainAfterUpdate ==
    /\ mainpc = "body"
    /\ op = "update"
    /\ pc = "idle"
    /\ mainpc' = CASE result = "True" -> "print"
                  [] result = "raised" -> "raising"
                  [] OTHER -> "exit"
    /\ UNCHANGED <<connVars, session, closes, arg, ret, raceVars>>

\* for vehicle in connection.vehicles: print(vehicle)
MainPrint ==
    /\ mainpc = "print"
    /\ mainpc' = IF \E i \in DOMAIN state : StrRaises(state[i].attrs)
                 THEN "raising"
                 ELSE "exit"
    /\ UNCHANGED <<connVars, session, closes, arg, ret, raceVars>>

\* the block is left by a raise only when the error is not the body's
AExitUnlessRaising ==
    /\ mainpc = "exit"
    /\ session' = "closed"
    /\ closes' = closes + 1
    /\ mainpc' = "left"
    /\ UNCHANGED <<connVars, arg, ret, raceVars>>

\* __aexit__: await self._session.close(); an error of the body goes on
AExit ==
    /\ mainpc \in {"exit", "raising"}
    /\ session' = "closed"
    /\ closes' = closes + 1
    /\ mainpc' = IF mainpc = "exit" THEN "left" ELSE "left_raising"
    /\ UNCHANGED <<connVars, arg, ret, raceVars>>

NextMain ==
    \/ MainUpdate
    \/ GetAccount
    \/ GetRelation
    \/ GetAttributes
    \/ GetStatus
    \/ GetPosition
    \/ MainAfterUpdate
    \/ MainPrint
    \/ AExit

\* main() runs on: every request is answered or fails within its timeout
SpecMain == InitMain /\ [][NextMain]_vars /\ WF_vars(NextMain)

----------------------------------------------------------------------------
(* Vehicle.any_open, Vehicle.heater_supported, Vehicle.is_heater_on         *)

\* a Python bool
Bool(b) == IF b THEN "true" ELSE "false"

\* x or y
PyOr(x, y) == IF Truthy(x) THEN x ELSE y

\* key names, letter by letter, and the name looked for in them
Open == <<"O", "p", "e", "n">>

DoorKeys ==
    { <<"h", "o", "o", "d", "O", "p", "e", "n">>,
      <<"O", "p", "e", "n", "L", "i", "d">>,
      <<"r", "e", "o", "p", "e", "n">>,
      <<"t", "i", "m", "e", "s", "t", "a", "m", "p">> }

DoorValues == {"true", "false", "foo"}

\* pat in s, for two strings
Contains(pat, s) ==
    \E i \in 1..(Len(s) + 1 - Len(pat)) : SubSeq(s, i, i + Len(pat) - 1) = pat

\* the doors/windows argument: << >> for None, <<m>> for the mapping m
DoorsInputs ==
    { << >> } \cup
    { <<m>> : m \in UNION { [K -> DoorValues] : K \in SUBSET DoorKeys } }

\* a returned value, a returned mapping, a raised error
Value(v) == [kind |-> "value", value |-> v]

Mapping(m) == [kind |-> "mapping", value |-> m]

Raise(e) == [kind |-> "raise", value |-> e]

\* any value of the mapping counts, whatever its key
any_open_of_any_key(doors) ==
    IF Len(doors) = 0 THEN Value(NoneVal)
    ELSE IF DOMAIN doors[1] = {} THEN Mapping(doors[1])
    ELSE Value(Bool(\E door \in DOMAIN doors[1] : Truthy(doors[1][door])))

\* doors and any(doors[door] for door in doors if 'Open' in door)
any_open(doors) ==
    IF Len(doors) = 0 THEN Value(NoneVal)
    ELSE IF DOMAIN doors[1] = {} THEN Mapping(doors[1])
    ELSE Value(Bool(\E door \in DOMAIN doors[1] :
                        Contains(Open, door) /\ Truthy(doors[1][door])))

\* truth value of what was returned
RetTruthy(r) ==
    /\ r.kind \in {"value", "mapping"}
    /\ IF r.kind = "value" THEN Truthy(r.value) ELSE DOMAIN r.value # {}

\* values of the capability flags and of the 'heater' attribute
CapValues == {"true", "false"}

HeaterValues ==
    { [t |-> "None"],
      [t |-> "dict", v |-> [k \in {} |-> "off"]],
      [t |-> "dict", v |-> [status |-> "off"]],
      [t |-> "dict", v |-> [status |-> "on"]] }

HeaterKeys == {"remoteHeaterSupported", "preclimatizationSupported", "heater"}

\* snapshots with any of the three attributes present or missing
HeaterAttrs ==
    { [k \in K |-> CASE k = "remoteHeaterSupported" -> r
                    [] k = "preclimatizationSupported" -> p
                    [] OTHER -> h] :
        K \in SUBSET HeaterKeys, r \in CapValues, p \in CapValues,
        h \in HeaterValues }

\* self.attrs.get('heater')
heater(a) == IF "heater" \in DOMAIN a THEN a["heater"] ELSE [t |-> "None"]

\* a heater object is enough, whatever the capabilities
heater_supported_by_heater_alone(a) == Bool("heater" \in DOMAIN a)

\* (remote or preclimatization) and 'heater' in self.attrs
heater_supported(a) ==
    PyAnd(PyOr(is_remote_heater_supported(a), is_preclimatization_supported(a)),
          Bool("heater" \in DOMAIN a))

\* self.heater_supported and 'status' in self.heater and
\* self.heater['status'] != 'off'
is_heater_on(a) ==
    IF ~Truthy(heater_supported(a)) THEN Value(heater_supported(a))
    ELSE IF heater(a).t = "None" THEN Raise("TypeError")
    ELSE IF "status" \notin DOMAIN heater(a).v THEN Value("false")
    ELSE Value(Bool(heater(a).v["status"] # "off"))

\* an accessor about to be called on one of its inputs
InitAccessors ==
    /\ state = << >>
    /\ pc = "idle"
    /\ op = "none"
    /\ cur = NoUrl
    /\ path = NoPath
    /\ todo = 0
    /\ idx = 0
    /\ journal = FALSE
    /\ reset = FALSE
    /\ result = "None"
    /\ exc = "none"
    /\ callResult = "-"
    /\ submitRes = << >>
    /\ pollRes = << >>
    /\ reqs = << >>
    /\ failedAt = "none"
    /\ preKeys = {}
    /\ discovered = {}
    /\ expected = << >>
    /\ remote = << >>
    /\ pre = << >>
    /\ prev = NoPrev
    /\ session = "open"
    /\ closes = 0
    /\ mainpc = "none"
    /\ \/ arg \in { [f |-> "any_open", x |-> d] : d \in DoorsInputs }
       \/ arg \in { [f |-> "is_heater_on", x |-> a] : a \in HeaterAttrs }
    /\ ret = NoRet
    /\ dicts = << >>
    /\ snaps = << >>
    /\ self_state = 0
    /\ tasks = << >>

\* Vehicle.any_open(doors)
CallAnyOpen ==
    /\ arg.f = "any_open"
    /\ ret.kind = "none"
    /\ ret' = any_open(arg.x)
    /\ UNCHANGED <<connVars, session, closes, mainpc, arg, raceVars>>

\* vehicle.is_heater_on
CallIsHeaterOn ==
    /\ arg.f = "is_heater_on"
    /\ ret.kind = "none"
    /\ ret' = is_heater_on(arg.x)
    /\ UNCHANGED <<connVars, session, closes, mainpc, arg, raceVars>>

NextAccessors ==
    \/ CallAnyOpen
    \/ CallIsHeaterOn

SpecAccessors == InitAccessors /\ [][NextAccessors]_vars

----------------------------------------------------------------------------
(* Two calls at once on one Connection: a refresh and update(reset=True).   *)
(* A call runs from one await to the next without the other call running;   *)
(* dicts are objects, so that a reference taken before an await can be told *)
(* from the object self._state holds after it.                              *)

\* everything but the variables of this study
otherVars == <<connVars, session, closes, mainpc, arg, ret>>

TaskIds == {"refresh", "rediscovery"}

\* the snapshot object the dict d holds for url u
SnapOf(d, u) == d[CHOOSE i \in DOMAIN d : d[i].url = u].snap

\* d.update({u: snapshot object n})
DictInsert(d, u, n) ==
    IF HasKey(d, u)
    THEN [i \in DOMAIN d |-> IF d[i].url = u THEN [url |-> u, snap |-> n] ELSE d[i]]
    ELSE Append(d, [url |-> u, snap |-> n])

\* the locals of a call that has not started
NewTask(kind, r, u) ==
    [kind |-> kind, reset |-> r, pc |-> "start", todo |-> 0, cur |-> u,
     target |-> 0, itd |-> 0, iti |-> 0, itn |-> 0, err |-> "none",
     stray |-> FALSE]

\* the call ends with the error e
Fails(T, e) == [T EXCEPT !.pc = "failed", !.err = e]

\* self._state[url].update(await self.get(k, url)): the snapshot is looked up
\* in the dict self._state holds now, KeyError if url is not a key of it, and
\* its update method is bound before the request is awaited
BindAndFetch(ds, cs, T, u, k) ==
    IF ~HasKey(ds[cs], u)
    THEN Fails([T EXCEPT !.cur = u], "KeyError")
    ELSE [T EXCEPT !.pc = k, !.cur = u, !.target = SnapOf(ds[cs], u)]

\* next(self.vehicles): RuntimeError if the dict under the iterator has
\* changed size, return True at its end, else vehicle.update() of the next url
Advance(ds, cs, T) ==
    IF Len(ds[T.itd]) # T.itn THEN Fails(T, "RuntimeError")
    ELSE IF T.iti > T.itn THEN [T EXCEPT !.pc = "returned"]
    ELSE BindAndFetch(ds, cs, [T EXCEPT !.iti = @ + 1], ds[T.itd][T.iti].url, "status")

\* for vehicle in self.vehicles: the generator iterates the dict self._state
\* holds when the loop is entered
StartLoop(ds, cs, T) ==
    Advance(ds, cs, [T EXCEPT !.itd = cs, !.iti = 1, !.itn = Len(ds[cs])])

\* the snapshot object the call is about to update is not the one the
\* Connection holds for the url now
Stray(T) ==
    \/ ~HasKey(dicts[self_state], T.cur)
    \/ SnapOf(dicts[self_state], T.cur) # T.target

\* the servers of this study: any list of relations; every vehicle answers
\* with the same bare attributes and the same status
RaceRemotes ==
    { r \in Remotes :
        /\ \A u \in URLs : DOMAIN r.attributes[u] = {"vin"}
        /\ \A u \in URLs : "ERS" \in DOMAIN r.status[u] }

\* the registries of one or two vehicles an update() against r left behind
\* when the account had these vehicles
RaceRegistries(r) ==
    { [i \in DOMAIN us |->
          [url |-> us[i],
           attrs |-> DictUpdate(DictUpdate(r.attributes[us[i]], r.status[us[i]]),
                                CHOOSE p \in PositionResponses : TRUE)]] :
        us \in { q \in [1..1 -> URLs] \cup [1..2 -> URLs] :
                    Cardinality({q[i] : i \in DOMAIN q}) = Len(q) } }

\* a registry of one or two vehicles, a refresh (update() or Vehicle.update)
\* and update(reset=True), neither started
InitRace ==
    /\ state = << >>
    /\ pc = "idle"
    /\ op = "none"
    /\ cur = NoUrl
    /\ path = NoPath
    /\ todo = 0
    /\ idx = 0
    /\ journal = FALSE
    /\ reset = FALSE
    /\ result = "None"
    /\ exc = "none"
    /\ callResult = "-"
    /\ submitRes = << >>
    /\ pollRes = << >>
    /\ reqs = << >>
    /\ failedAt = "none"
    /\ preKeys = {}
    /\ discovered = {}
    /\ expected = << >>
    /\ remote \in { <<r>> : r \in RaceRemotes }
    /\ pre = << >>
    /\ prev = NoPrev
    /\ session = "open"
    /\ closes = 0
    /\ mainpc = "none"
    /\ arg = NoArg
    /\ ret = NoRet
    /\ \E R \in RaceRegistries(remote[1]) :
          /\ dicts = << [i \in DOMAIN R |-> [url |-> R[i].url, snap |-> i]] >>
          /\ snaps = [i \in DOMAIN R |-> R[i].attrs]
          /\ self_state = 1
          /\ \E T \in { NewTask("update", FALSE, NoUrl) } \cup
                       { NewTask("vehicle_update", FALSE, u) : u \in Keys(R) } :
                tasks = [t \in TaskIds |->
                            IF t = "refresh" THEN T
                            ELSE NewTask("update", TRUE, NoUrl)]

\* the call t runs from its first line to its first await
TaskStart(t) ==
    /\ tasks[t].pc = "start"
    /\ tasks' = [tasks EXCEPT ![t] =
          IF @.kind = "vehicle_update"
          THEN BindAndFetch(dicts, self_state, @, @.cur, "status")
          ELSE IF Len(dicts[self_state]) = 0 \/ @.reset
               THEN [@ EXCEPT !.pc = "account"]
               ELSE StartLoop(dicts, self_state, @)]
    /\ UNCHANGED <<dicts, snaps, self_state, otherVars>>

\* the request the call t waits for fails
TaskFails(t) ==
    /\ tasks[t].pc \in {"account", "relation", "attributes", "status", "position"}
    /\ tasks' = [tasks EXCEPT ![t] = Fails(@, "transport")]
    /\ UNCHANGED <<dicts, snaps, self_state, otherVars>>

\* customeraccounts is answered: self._state = {} and the first relation is
\* asked for
TaskAccount(t) ==
    /\ tasks[t].pc = "account"
    /\ dicts' = Append(dicts, << >>)
    /\ self_state' = Len(dicts) + 1
    /\ \E n \in AccountAnswers(remote) :
          tasks' = [tasks EXCEPT ![t] =
              IF n = 0 THEN StartLoop(dicts', self_state', @)
              ELSE [@ EXCEPT !.pc = "relation", !.todo = n]]
    /\ UNCHANGED <<snaps, otherVars>>

\* the relation is answered: url = rel['vehicle'] + '/'
TaskRelation(t) ==
    /\ tasks[t].pc = "relation"
    /\ \E u \in RelationAnswers(remote, tasks[t].todo) :
          tasks' = [tasks EXCEPT ![t] = [@ EXCEPT !.pc = "attributes", !.cur = u]]
    /\ UNCHANGED <<dicts, snaps, self_state, otherVars>>

\* the attributes are answered: self._state.update({url: state}), on the
\* dict self._state holds now
TaskAttributes(t) ==
    /\ tasks[t].pc = "attributes"
    /\ \E a \in AttrAnswers(remote, tasks[t].cur) : snaps' = Append(snaps, a)
    /\ dicts' = [dicts EXCEPT ![self_state] =
                    DictInsert(@, tasks[t].cur, Len(snaps) + 1)]
    /\ tasks' = [tasks EXCEPT ![t] =
          IF @.todo > 1
          THEN [@ EXCEPT !.pc = "relation", !.todo = @ - 1]
          ELSE StartLoop(dicts', self_state, @)]
    /\ UNCHANGED <<self_state, otherVars>>

\* the status is answered: the bound update() merges it, then the snapshot
\* is looked up again for the position
TaskStatus(t) ==
    /\ tasks[t].pc = "status"
    /\ \E r \in StatusAnswers(remote, tasks[t].cur) :
          snaps' = [snaps EXCEPT ![tasks[t].target] = DictUpdate(@, r)]
    /\ tasks' = [tasks EXCEPT ![t] =
          BindAndFetch(dicts, self_state,
                       [@ EXCEPT !.stray = @ \/ Stray(tasks[t])], @.cur, "position")]
    /\ UNCHANGED <<dicts, self_state, otherVars>>

\* the position is answered: the bound update() merges it; update_vehicle
\* returns (journal is False)
TaskPosition(t) ==
    /\ tasks[t].pc = "position"
    /\ \E r \in PositionResponses :
          snaps' = [snaps EXCEPT ![tasks[t].target] = DictUpdate(@, r)]
    /\ tasks' = [tasks EXCEPT ![t] =
          IF @.kind = "vehicle_update"
          THEN [@ EXCEPT !.pc = "returned", !.stray = @ \/ Stray(tasks[t])]
          ELSE Advance(dicts, self_state,
                       [@ EXCEPT !.stray = @ \/ Stray(tasks[t])])]
    /\ UNCHANGED <<dicts, self_state, otherVars>>

NextRace ==
    \/ \E t \in TaskIds : TaskStart(t)
    \/ \E t \in TaskIds : TaskFails(t)
    \/ \E t \in TaskIds : TaskAccount(t)
    \/ \E t \in TaskIds : TaskRelation(t)
    \/ \E t \in TaskIds : TaskAttributes(t)
    \/ \E t \in TaskIds : TaskStatus(t)
    \/ \E t \in TaskIds : TaskPosition(t)

SpecRace == InitRace /\ [][NextRace]_vars

TypeOK ==
    /\ pc \in {"idle", "account", "relation", "attributes", "status",
               "position", "trips", "post", "poll"}
    /\ result \in {"pending", "True", "None", "raised"}
    /\ Keys(state) \subseteq URLs
    /\ Len(state) = Cardinality(Keys(state))
    /\ Len(remote) \in {0, 1}
    /\ \A i \in DOMAIN remote : remote[i] \in Remotes
    /\ Keys(pre) \subseteq URLs
    /\ prev.journal => prev.update
    /\ session \in {"open", "closed"}
    /\ closes \in 0..1
    /\ mainpc \in {"none", "body", "print", "exit", "raising", "left", "left_raising"}
    /\ arg.f \in {"none", "any_open", "is_heater_on"}
    /\ ret.kind \in {"none", "value", "mapping", "raise"}
    /\ self_state \in 0..Len(dicts)
    /\ DOMAIN tasks \in {{}, TaskIds}
    /\ \A t \in DOMAIN tasks : tasks[t].target \in 0..Len(snaps)

----------------------------------------------------------------------------
(* Properties                                                               *)

\* number of requests of kind k the running/last operation has issued
Count(k) == Cardinality({i \in DOMAIN reqs : reqs[i][1] = k})

RefreshKinds == {"status", "position", "trips"}

CallKinds == {"POST", "service"}

\* number of status/position/trips requests issued
RefreshCount == Cardinality({i \in DOMAIN reqs : reqs[i][1] \in RefreshKinds})

\* the command method was invoked, found its capability and Vehicle.call is over
CallOver == op \in Methods /\ callResult # "-"

\* the POST was answered with an accepted status and a service url to poll
SubmitWasAccepted ==
    /\ Len(submitRes) = 1
    /\ submitRes[1].status \in {"Queued", "Started"}
    /\ In("service", submitRes[1])

\* C1: Vehicle.call returns True if and only if the response of the POST has a
\* status in {Queued, Started} and the single GET of its service url was made
\* and answered with a status in {MessageDelivered, Successful, Started}; in
\* every other run it returns None or raises.  An accepted submission is
\* always followed by that GET.
C1_CallTrueIffBothAccepted ==
    CallOver =>
        /\ callResult \in {"True", "None", "raised"}
        /\ SubmitWasAccepted => Count("service") = 1
        /\ callResult = "True" <=>
            /\ Len(submitRes) = 1
            /\ submitRes[1].status \in {"Queued", "Started"}
            /\ Len(pollRes) = 1
            /\ pollRes[1].status \in {"MessageDelivered", "Successful", "Started"}
            /\ Count("service") = 1

\* C1, its case: {status: Queued, service: X}, then {status: MessageDelivered},
\* and call has returned True
C1_Witness ==
    /\ op \in Methods
    /\ submitRes = << [status |-> "Queued", service |-> "X"] >>
    /\ Len(pollRes) = 1
    /\ pollRes[1].status = "MessageDelivered"
    /\ callResult = "True"

\* C2: when the response of the POST carries a status that is neither Queued
\* nor Started, Vehicle.call returns None and the command never issues a GET
\* of the service url.
C2_RejectedSubmitNeverPolls ==
    ( /\ op \in Methods
      /\ Len(submitRes) = 1
      /\ In("status", submitRes[1])
      /\ submitRes[1].status \notin {"Queued", "Started"} )
    => /\ callResult = "None"
       /\ Count("service") = 0
       /\ pollRes = << >>
       /\ pc # "poll"

\* C2, its case: the POST was answered {status: Failed} and the command method
\* has run to its end
C2_Witness ==
    /\ op \in Methods
    /\ pc = "idle"
    /\ Len(submitRes) = 1
    /\ submitRes[1].status = "Failed"
    /\ callResult = "None"
    /\ Count("POST") = 1
    /\ Count("service") = 0

\* C3: a response without 'status', to the POST or to the GET of the service
\* url, makes Vehicle.call return a failure value: it does not raise.
C3_MissingStatusIsAFailureValue ==
    ( /\ op \in Methods
      /\ \/ Len(submitRes) = 1 /\ ~In("status", submitRes[1])
         \/ Len(pollRes) = 1 /\ ~In("status", pollRes[1]) )
    => /\ callResult = "None"
       /\ result # "raised"

\* C4: a failure of the transport during the POST or during the GET of the
\* service url is caught inside Vehicle.call and becomes a failure value: the
\* command never lets it through to its caller.
C4_TransportFailureIsCaught ==
    (op \in Methods /\ failedAt \in CallKinds)
    => /\ callResult = "None"
       /\ result # "raised"

\* the capability flag(s) of command method m are false or absent in snapshot a
FlagOff(m, a) ==
    CASE m = "lock" -> ~Truthy(DictGet(a, "lockSupported"))
      [] m = "unlock" -> ~Truthy(DictGet(a, "unlockSupported"))
      [] m \in {"start_engine", "stop_engine"} ->
            ~Truthy(DictGet(a, "engineStartSupported"))
      [] m \in {"start_heater", "stop_heater"} ->
            /\ ~Truthy(DictGet(a, "remoteHeaterSupported"))
            /\ ~Truthy(DictGet(a, "preclimatizationSupported"))

\* C5: a command method invoked on a vehicle whose capability flag is false or
\* absent ends at once, having issued no request and left the registry as it was.
C5_UnsupportedIssuesNothing ==
    [][ \A m \in Methods, u \in URLs :
            ( /\ StartCommand(m, u)
              /\ HasKey(state, u)
              /\ FlagOff(m, Lookup(state, u)) )
            => /\ pc' = "idle"
               /\ reqs' = << >>
               /\ state' = state
               /\ result' = "None" ]_vars

\* C5, its case: lock() has returned on a vehicle with lockSupported: false
C5_Witness ==
    /\ op = "lock"
    /\ pc = "idle"
    /\ HasKey(state, cur)
    /\ DictGet(Lookup(state, cur), "lockSupported") = "false"
    /\ reqs = << >>
    /\ result = "None"

\* every status/position/trips request in reqs comes after every POST and
\* every GET of the service url
RefreshAfterCall ==
    \A i \in DOMAIN reqs, j \in DOMAIN reqs :
        (reqs[i][1] \in CallKinds /\ reqs[j][1] \in RefreshKinds) => i < j

\* C6 as stated: the refresh requests are issued when, and only when, the
\* command reported success.
C6_RefreshIffSuccess ==
    (CallOver /\ pc = "idle")
    => (RefreshCount > 0 <=> callResult = "True")

\* C6 as the code has it: the refresh requests come after the POST and the GET
\* of the service url, and they are issued when, and only when, Vehicle.call
\* returned, with True or with None; a call that raised is followed by none.
C6_RefreshIffCallReturned ==
    op \in Methods =>
        /\ RefreshAfterCall
        /\ RefreshCount > 0 => callResult \in {"True", "None"}
        /\ (CallOver /\ pc = "idle")
            => (RefreshCount > 0 <=> callResult \in {"True", "None"})

\* C6, its case: Vehicle.call returned None and the status and position
\* requests followed
C6_Witness ==
    /\ op \in Methods
    /\ pc = "idle"
    /\ callResult = "None"
    /\ Count("status") = 1
    /\ Count("position") = 1

\* C7: a command whose submission was accepted issues exactly one GET of the
\* service url, every command that reaches Vehicle.call issues exactly one
\* POST, and a poll answered Queued ends the call with None, not a second GET.
C7_ExactlyOnePoll ==
    op \in Methods =>
        /\ Count("POST") <= 1
        /\ Count("service") <= 1
        /\ (path # NoPath /\ pc # "post") => Count("POST") = 1
        /\ (SubmitWasAccepted /\ pc # "poll") => Count("service") = 1
        /\ (Len(pollRes) = 1 /\ pollRes[1].status = "Queued")
            => (callResult = "None" /\ pc # "poll")

\* C7, its case: the single poll was answered Queued and the command is over
C7_Witness ==
    /\ op \in Methods
    /\ pc = "idle"
    /\ SubmitWasAccepted
    /\ Len(pollRes) = 1
    /\ pollRes[1].status = "Queued"
    /\ callResult = "None"
    /\ Count("service") = 1

\* the request on which the transport failed is the last one issued
FailureWasLast == Len(reqs) > 0 /\ reqs[Len(reqs)][1] = failedAt

\* C8: when a fetch of Connection.update fails in the transport, no further
\* request is issued, update returns a failure value and the error does not
\* reach the caller; update returns True only when no fetch failed.
C8_UpdateFailureIsAValue ==
    /\ (op = "update" /\ failedAt # "none")
        => (pc = "idle" /\ FailureWasLast /\ result = "None" /\ exc = "none")
    /\ (op = "update" /\ result = "True") => failedAt = "none"

\* C9: after a refresh that failed at one of its fetches, the registry is what
\* the effects of the fetches that succeeded before it produce, applied to the
\* registry the call started from: nothing is rolled back.
C9_FailedRefreshKeepsPartialState ==
    (op \in {"update", "vehicle_update"} /\ pc = "idle" /\ failedAt # "none")
    => /\ Keys(state) = DOMAIN expected
       /\ \A u \in Keys(state) : Lookup(state, u) = expected[u]

\* C9, its case: a rediscovery failed at the position fetch of a vehicle that
\* was not in the registry before the call
C9_Witness ==
    /\ op = "update"
    /\ pc = "idle"
    /\ failedAt = "position"
    /\ preKeys # {}
    /\ cur \notin preKeys
    /\ HasKey(state, cur)
    /\ "carLocked" \in DOMAIN Lookup(state, cur)

\* C10: after update(reset=True) returned True the identifiers of the registry
\* are exactly those the relation fetches of that call returned; an
\* identifier known before and not listed any more is gone.
C10_RediscoveryReplaces ==
    (op = "update" /\ reset /\ pc = "idle" /\ result = "True")
    => /\ Keys(state) = discovered
       /\ \A u \in preKeys \ discovered : ~HasKey(state, u)

\* C10, its case: a forced rediscovery succeeded and an identifier known
\* before was not listed
C10_Witness ==
    /\ op = "update"
    /\ reset
    /\ pc = "idle"
    /\ result = "True"
    /\ preKeys \ discovered # {}
    /\ discovered # {}

\* C11: while the registry holds a vehicle, no step of an operation other than
\* a refresh called with reset=True adds or removes an identifier: the steps
\* of update(reset=False), of Vehicle.update and of the command methods,
\* answered or failing, leave the set of identifiers as it is.
C11_IdentifiersStable ==
    [][(state # << >> /\ ~(op' = "update" /\ reset'))
          => Keys(state') = Keys(state)]_vars

\* a plain update() of two vehicles failed on its way and both are still there
C11_Witness ==
    /\ pc = "idle"
    /\ op = "update"
    /\ ~reset
    /\ failedAt = "position"
    /\ Cardinality(preKeys) = 2
    /\ Keys(state) = preKeys

\* the operation is a refresh: Connection.update or Vehicle.update
IsRefresh == op \in {"update", "vehicle_update"}

\* the update() in hand rebuilds the registry: reset=True, or nothing in it
Rediscovers == op = "update" /\ (reset \/ preKeys = {})

\* every vehicle that was in the registry when the operation was invoked and
\* is in it now has every attribute name it had then
NamesKept ==
    \A u \in Keys(pre) \cap Keys(state) :
        DOMAIN Lookup(pre, u) \subseteq DOMAIN Lookup(state, u)

\* C12 as stated: after any refresh call, forced or not, the vehicles present
\* before and after have kept every attribute name they had before the call.
C12_NamesNeverShrink ==
    (pc = "idle" /\ IsRefresh) => NamesKept

\* C12: at every point of a refresh call that does not rediscover, answered or
\* failing, every vehicle of the registry has kept every attribute name it had
\* when the call was made: the merges add names or overwrite values.
C12_NamesKeptWithoutRediscovery ==
    (IsRefresh /\ ~Rediscovers) => NamesKept

\* a plain update(journal=True) succeeded and gave a vehicle the name 'trips'
C12_Witness ==
    /\ pc = "idle"
    /\ op = "update"
    /\ ~reset
    /\ journal
    /\ result = "True"
    /\ \E u \in Keys(pre) \cap Keys(state) :
          /\ "trips" \notin DOMAIN Lookup(pre, u)
          /\ "trips" \in DOMAIN Lookup(state, u)
          /\ DOMAIN Lookup(pre, u) \subseteq DOMAIN Lookup(state, u)

\* C13: update(reset=False) returned True, is called again with the server
\* in the same state and no more than the same journal, and returns True: the
\* registry after the second call is the registry after the first, entry by
\* entry and in the same order.
C13_SecondUpdateChangesNothing ==
    (/\ pc = "idle"
     /\ op = "update"
     /\ ~reset
     /\ result = "True"
     /\ prev.update
     /\ (journal => prev.journal))
        => state = pre

\* the second of two successful update(journal=True) calls in a row, on a
\* registry of two vehicles, has fetched status, position and trips of both
C13_Witness ==
    /\ pc = "idle"
    /\ op = "update"
    /\ ~reset
    /\ result = "True"
    /\ prev.update
    /\ journal
    /\ Len(state) = 2
    /\ Len(reqs) = 6
    /\ state = pre

\* main() has left the async with block
BlockLeft == mainpc \in {"left", "left_raising"}

\* C14: the session opened by Connection() is open all through the block of
\* main(); the block is left on every path, update() answered True, answered
\* None or an error escaping, and when it is left close() has been called
\* exactly once; no request is issued on the closed session.
C14_SessionClosedOnce ==
    /\ [](IF BlockLeft THEN session = "closed" /\ closes = 1
                       ELSE session = "open" /\ closes = 0)
    /\ [][reqs' # reqs => session = "open" /\ session' = "open"]_vars
    /\ <>BlockLeft

\* update() raised out of the block and the session was closed on the way
C14_Witness ==
    /\ mainpc = "left_raising"
    /\ result = "raised"
    /\ Len(reqs) > 0
    /\ session = "closed"
    /\ closes = 1

\* the keys of DoorKeys whose name has 'Open' in it
KeysNamingOpen ==
    { <<"h", "o", "o", "d", "O", "p", "e", "n">>,
      <<"O", "p", "e", "n", "L", "i", "d">> }

\* doors has a key naming 'Open' with a true value
SomeOpen(doors) ==
    /\ Len(doors) = 1
    /\ \E k \in KeysNamingOpen \cap DOMAIN doors[1] : Truthy(doors[1][k])

\* d and e have the same keys naming 'Open', with the same values
SameOpenKeys(d, e) ==
    /\ Len(d) = 1
    /\ Len(e) = 1
    /\ KeysNamingOpen \cap DOMAIN d[1] = KeysNamingOpen \cap DOMAIN e[1]
    /\ \A k \in KeysNamingOpen \cap DOMAIN d[1] : d[1][k] = e[1][k]

\* C15: what any_open returns is true exactly when some key with 'Open' in its
\* name has a true value; None and the empty mapping give a false value
\* (themselves); two mappings that differ only in keys without 'Open' in
\* their name give results of the same truth.
C15_AnyOpenIffAnOpenKeyIsTrue ==
    (arg.f = "any_open" /\ ret.kind # "none") =>
        /\ RetTruthy(ret) <=> SomeOpen(arg.x)
        /\ (Len(arg.x) = 0 => ret = Value(NoneVal))
        /\ ((Len(arg.x) = 1 /\ DOMAIN arg.x[1] = {}) => ~RetTruthy(ret))
        /\ \A d \in DoorsInputs :
              SameOpenKeys(d, arg.x) => (RetTruthy(any_open(d)) <=> RetTruthy(ret))

\* any_open returned False on a mapping whose only true values are under
\* keys without 'Open' in their name, one of them spelled 'reopen'
C15_Witness ==
    /\ arg.f = "any_open"
    /\ ret = Value("false")
    /\ \E k \in KeysNamingOpen \cap DOMAIN arg.x[1] : arg.x[1][k] = "false"
    /\ \A k \in DOMAIN arg.x[1] \ KeysNamingOpen : arg.x[1][k] \in {"true", "foo"}
    /\ <<"r", "e", "o", "p", "e", "n">> \in DOMAIN arg.x[1]

\* the snapshot says the vehicle has a remote heater or preclimatization
HasHeaterCapability(a) ==
    \/ ("remoteHeaterSupported" \in DOMAIN a /\ a["remoteHeaterSupported"] = "true")
    \/ ("preclimatizationSupported" \in DOMAIN a
            /\ a["preclimatizationSupported"] = "true")

\* the snapshot has a heater object with a status other than 'off'
HeaterStatusNotOff(a) ==
    /\ "heater" \in DOMAIN a
    /\ a["heater"].t = "dict"
    /\ "status" \in DOMAIN a["heater"].v
    /\ a["heater"].v["status"] # "off"

\* C16: is_heater_on is true exactly when the vehicle has the remote heater
\* or the preclimatization capability and its heater object has a status
\* other than 'off'; with neither capability it returns a false value and
\* does not raise, whatever the heater object is.
C16_HeaterOnNeedsCapabilityAndStatus ==
    (arg.f = "is_heater_on" /\ ret.kind # "none") =>
        /\ RetTruthy(ret) <=> (HasHeaterCapability(arg.x) /\ HeaterStatusNotOff(arg.x))
        /\ (~HasHeaterCapability(arg.x) => (ret.kind = "value" /\ ~Truthy(ret.value)))

\* is_heater_on returned a false value on a snapshot without capability whose
\* heater object has the status 'on'
C16_Witness ==
    /\ arg.f = "is_heater_on"
    /\ ret.kind = "value"
    /\ ~Truthy(ret.value)
    /\ ~HasHeaterCapability(arg.x)
    /\ HeaterStatusNotOff(arg.x)

DiscoveryKinds == {"customeraccounts", "relation", "attributes"}

\* number of discovery requests issued
DiscoveryCount == Cardinality({i \in DOMAIN reqs : reqs[i][1] \in DiscoveryKinds})

\* requests per vehicle of the refresh in hand
PerVehicle == IF journal THEN 3 ELSE 2

\* the requests from position n + 1 on are status, position and, with journal,
\* trips, of each vehicle of the registry in the order of the registry
FetchesEveryVehicleFrom(n) ==
    /\ Len(reqs) = n + PerVehicle * Len(state)
    /\ \A i \in DOMAIN state :
          /\ reqs[n + PerVehicle * (i - 1) + 1] = <<"status", state[i].url>>
          /\ reqs[n + PerVehicle * (i - 1) + 2] = <<"position", state[i].url>>
          /\ journal => reqs[n + PerVehicle * (i - 1) + 3] = <<"trips", state[i].url>>

\* the first n requests are customeraccounts, then relation and attributes
\* in turn
DiscoversFirst(n) ==
    \A i \in 1..n :
        reqs[i][1] = IF i = 1 THEN "customeraccounts"
                     ELSE IF i % 2 = 0 THEN "relation" ELSE "attributes"

\* C17: a call of update() makes discovery requests if and only if the
\* registry was empty when it was called or reset is true, and makes them
\* first: customeraccounts, then each relation followed by its attributes.
\* A call that returns True has then requested status, position and, if and
\* only if journal is true, trips, in this order, of every identifier of the
\* registry, and nothing else.
C17_DiscoveryIffEmptyOrReset ==
    (op = "update" /\ Len(reqs) > 0) =>
        /\ DiscoveryCount > 0 <=> (preKeys = {} \/ reset)
        /\ DiscoversFirst(DiscoveryCount)
        /\ Count("trips") > 0 => journal
        /\ (pc = "idle" /\ result = "True") => FetchesEveryVehicleFrom(DiscoveryCount)

\* update(journal=True, reset=True) returned True on a registry that was not
\* empty and holds two vehicles now
C17_Witness ==
    /\ op = "update"
    /\ pc = "idle"
    /\ result = "True"
    /\ reset
    /\ journal
    /\ preKeys # {}
    /\ Len(state) = 2
    /\ DiscoveryCount = 5
    /\ Len(reqs) = 11

\* C18: in the run of a command method the registry changes only in the
\* steps of the per-vehicle refresh that follows Vehicle.call: the call of
\* the method, the POST and the GET of the service url leave every entry as
\* it is, and a refresh step changes the snapshot of the vehicle of the
\* command alone; no identifier comes or goes.
C18_CommandTouchesOwnSnapshotOnly ==
    [][op' \in Methods =>
          /\ (pc \in {"idle", "post", "poll"} => state' = state)
          /\ Keys(state') = Keys(state)
          /\ \A u \in Keys(state) \ {cur'} : Lookup(state', u) = Lookup(state, u)
          /\ (pc # "idle" => cur' = cur)]_vars

\* lock() on one of two vehicles went through and the refresh after it
\* found the vehicle unlocked; the other vehicle is still seen locked
C18_Witness ==
    /\ op = "lock"
    /\ pc = "idle"
    /\ callResult = "True"
    /\ RefreshCount = 2
    /\ Len(state) = 2
    /\ Lookup(state, cur)["carLocked"] = "false"
    /\ \A u \in Keys(state) \ {cur} : Lookup(state, u)["carLocked"] = "true"

\* C19: while update() waits for the answer to customeraccounts, and after
\* that request has failed, caught or not, the registry is the registry the
\* call found, entry by entry.
C19_FailedAccountFetchKeepsRegistry ==
    (op = "update" /\ (pc = "account" \/ failedAt = "customeraccounts"))
        => state = pre

\* update(reset=True) on a registry of two vehicles failed on customeraccounts
C19_Witness ==
    /\ op = "update"
    /\ reset
    /\ pc = "idle"
    /\ failedAt = "customeraccounts"
    /\ Len(pre) = 2
    /\ state = pre

\* C20: whatever the order in which a refresh and a forced rediscovery take
\* their turns, the refresh ends with no error but a failed request (no
\* KeyError of a url missing from the registry, no RuntimeError of the dict
\* it iterates), and each response it merges goes into the snapshot the
\* Connection holds for the vehicle at that time.
C20_RefreshUndisturbedByRediscovery ==
    \A t \in DOMAIN tasks :
        ~tasks[t].reset =>
            /\ tasks[t].err \in {"none", "transport"}
            /\ ~tasks[t].stray

=============================================================================
